---------------------------- MODULE Spec2Model ----------------------------
(***************************************************************************)
(* Model of the package search aggregator "pd".                            *)
(*                                                                         *)
(* The repository holds two variants of the same program:                  *)
(*   src/src/main.rs      - the three searches are called one after the    *)
(*                          other and every failure is a panic ("seq");    *)
(*   src/yay/src/main.rs  - the three searches are tokio tasks joined by   *)
(*                          join_all, failures become empty lists          *)
(*                          ("async").                                     *)
(*                                                                         *)
(* Text is modelled as a sequence of one-character strings, so that the    *)
(* parsers and the renderer are computed character by character as the     *)
(* code computes them.  An ANSI escape sequence is one element.            *)
(***************************************************************************)
EXTENDS Naturals, Sequences, FiniteSets, TLC

VARIABLES
    variant,        \* which main.rs is running: "seq" or "async"
    args,           \* env::args() without the program name
    term,           \* search_term
    pc,             \* position of main / print_results_with_pager
    workers,        \* worker threads of the tokio runtime (async variant)
    task,           \* per adapter: state of its search
    stdout,         \* per adapter: what the external tool printed
    taskResult,     \* per adapter: value returned by search_<adapter>
    finished,       \* adapters in the order in which their searches ended
    results,        \* the triple returned by search_packages
    output,         \* the String `output` of print_results_with_pager
    display_output, \* `display_output`, the buffer after replace
    pager,          \* the pager child: "none", "running"
    pagerStdin,     \* the pipe to the pager: "none", "open", "closed"
    pagerIn,        \* what has been written into the pipe
    waitCalled,     \* pager.wait() has been called
    stdinAtWait     \* state of the pipe when pager.wait() was called

vars == <<variant, args, term, pc, workers, task, stdout, taskResult,
          finished, results, output, display_output, pager, pagerStdin,
          pagerIn, waitCalled, stdinAtWait>>

-----------------------------------------------------------------------------
(* Bounds of the model.                                                    *)

\* longest raw pacman/yay output (characters) drawn in SpecParse
MaxOut == 7
\* longest raw flatpak output (characters) drawn in SpecFlatpak
MaxFlatpakOut == 6
\* longest search term (characters) drawn in SpecFlatpak
MaxTermLen == 2
\* longest record list of one category drawn in SpecRender
MaxRecs == 2

Strings(A, n) == UNION {[1..k -> A] : k \in 0..n}

-----------------------------------------------------------------------------
(* Text helpers: the std library functions the program calls.              *)

NL == "\n"
TAB == "\t"
CR == "\r"

\* char::is_whitespace, restricted to the characters of the model
IsWhitespace(c) == c \in {" ", TAB, NL, CR}

\* position of the first c in s, 0 when there is none (str::find)
IndexOf(s, c) ==
    IF \E i \in 1..Len(s) : s[i] = c
    THEN CHOOSE i \in 1..Len(s) : s[i] = c /\ \A j \in 1..(i-1) : s[j] # c
    ELSE 0

\* str::splitn(n, c): at most n pieces, the last one holding the rest
RECURSIVE splitn(_, _, _)
splitn(n, s, c) ==
    LET i == IndexOf(s, c)
    IN  IF n <= 1 \/ i = 0
        THEN <<s>>
        ELSE <<SubSeq(s, 1, i-1)>> \o splitn(n-1, SubSeq(s, i+1, Len(s)), c)

RECURSIVE trim_start(_)
trim_start(s) ==
    IF s # <<>> /\ IsWhitespace(Head(s)) THEN trim_start(Tail(s)) ELSE s

RECURSIVE trim_end(_)
trim_end(s) ==
    IF s # <<>> /\ IsWhitespace(s[Len(s)])
    THEN trim_end(SubSeq(s, 1, Len(s)-1))
    ELSE s

\* str::trim
trim(s) == trim_end(trim_start(s))

\* str::lines: split at "\n", a final "\n" ends the last line and starts no
\* new one; a "\r" right before the "\n" is dropped with it
RECURSIVE lines(_)
lines(s) ==
    IF s = <<>> THEN <<>>
    ELSE LET i == IndexOf(s, NL)
         IN  IF i = 0 THEN <<s>>
             ELSE LET l == SubSeq(s, 1, i-1)
                      line == IF l # <<>> /\ l[Len(l)] = CR
                              THEN SubSeq(l, 1, Len(l)-1) ELSE l
                  IN  <<line>> \o lines(SubSeq(s, i+1, Len(s)))

\* slice::chunks(2)
RECURSIVE chunks2(_)
chunks2(v) ==
    IF v = <<>> THEN <<>>
    ELSE IF Len(v) = 1 THEN <<v>>
    ELSE <<SubSeq(v, 1, 2)>> \o chunks2(SubSeq(v, 3, Len(v)))

Upper == <<"A","B","C","D","E","F","G","H","I","J","K","L","M",
           "N","O","P","Q","R","S","T","U","V","W","X","Y","Z">>
Lower == <<"a","b","c","d","e","f","g","h","i","j","k","l","m",
           "n","o","p","q","r","s","t","u","v","w","x","y","z">>

\* str::to_lowercase
to_lowercase(s) ==
    [i \in 1..Len(s) |->
        IF \E k \in 1..26 : Upper[k] = s[i]
        THEN Lower[CHOOSE k \in 1..26 : Upper[k] = s[i]]
        ELSE s[i]]

\* str::contains(pat)
contains(s, pat) ==
    \E i \in 0..Len(s) :
        /\ i + Len(pat) <= Len(s)
        /\ \A j \in 1..Len(pat) : s[i+j] = pat[j]

\* the literal "No description."
NoDescription ==
    <<"N","o"," ","d","e","s","c","r","i","p","t","i","o","n",".">>

-----------------------------------------------------------------------------
(* The parsers of the adapters.                                            *)

\* the closure given to filter_map in execute_search_command: <<record>> for
\* Some(record), <<>> for None
parse_chunk(chunk) ==
    IF Len(chunk) = 2
    THEN LET parts == splitn(2, chunk[1], "/")
         IN  IF Len(parts) = 2
             THEN LET package_info == splitn(2, parts[2], " ")
                  IN  IF Len(package_info) = 2
                      THEN LET description ==
                                   IF trim(chunk[2]) = <<>>
                                   THEN NoDescription
                                   ELSE trim(chunk[2])
                           IN  << <<package_info[1], description>> >>
                      ELSE <<>>
             ELSE <<>>
    ELSE <<>>

RECURSIVE filter_map_chunks(_)
filter_map_chunks(cs) ==
    IF cs = <<>> THEN <<>>
    ELSE parse_chunk(Head(cs)) \o filter_map_chunks(Tail(cs))

\* a plausible slip: the empty lines are filtered out before the pairing
execute_search_command_nonempty(out) ==
    filter_map_chunks(chunks2(SelectSeq(lines(out), LAMBDA l : l # <<>>)))

\* execute_search_command, from the captured standard output on
execute_search_command(out) ==
    filter_map_chunks(chunks2(lines(out)))

\* the closure given to filter_map in search_flatpak
parse_flatpak_line(line, t) ==
    LET parts == splitn(3, line, TAB)
    IN  IF Len(parts) >= 2 /\ contains(to_lowercase(parts[1]), to_lowercase(t))
        THEN LET description ==
                     IF Len(parts) >= 3
                     THEN IF trim(parts[3]) = <<>>
                          THEN NoDescription
                          ELSE trim(parts[3])
                     ELSE NoDescription
             IN  << <<parts[1], description>> >>
        ELSE <<>>

RECURSIVE filter_map_flatpak(_, _)
filter_map_flatpak(ls, t) ==
    IF ls = <<>> THEN <<>>
    ELSE parse_flatpak_line(Head(ls), t) \o filter_map_flatpak(Tail(ls), t)

\* Iterator::skip(1)
skip1(v) == IF v = <<>> THEN <<>> ELSE Tail(v)

\* a plausible slip: the header line is not dropped
search_flatpak_keeps_header(out, t) ==
    filter_map_flatpak(SelectSeq(lines(out), LAMBDA l : l # <<>>), t)

\* search_flatpak, from the captured standard output on
search_flatpak(out, t) ==
    filter_map_flatpak(SelectSeq(skip1(lines(out)), LAMBDA l : l # <<>>), t)

-----------------------------------------------------------------------------
(* The adapters and the slots of the result triple.                        *)

Adapters == {"pacman", "aur", "flatpak"}

\* the order in which search_packages names the three searches
AdapterOrder == <<"pacman", "aur", "flatpak">>

\* search_pacman / search_aur / search_flatpak applied to a tool's output
ParseOf(a, out, t) ==
    IF a = "flatpak" THEN search_flatpak(out, t)
    ELSE execute_search_command(out)

-----------------------------------------------------------------------------
(* The renderer.                                                           *)

BOLD == "ESC[1m"
BLUE == "ESC[34m"
RED == "ESC[31m"
GREEN == "ESC[32m"
RESET == "ESC[0m"

PacmanName == <<"P","a","c","m","a","n">>
AurName == <<"A","U","R">>
FlatpakName == <<"F","l","a","t","p","a","k">>

DigitChars == <<"0","1","2","3","4","5","6","7","8","9">>

\* the decimal text of a usize, as format!("{}", count) writes it
RECURSIVE Decimal(_)
Decimal(n) ==
    IF n < 10 THEN <<DigitChars[n+1]>>
    ELSE Decimal(n \div 10) \o <<DigitChars[(n % 10) + 1]>>

format_package_count(count) ==
    IF count = 1
    THEN <<"1"," ","p","a","c","k","a","g","e">>
    ELSE Decimal(count) \o <<" ","p","a","c","k","a","g","e","s">>

\* the summary line pushed first into `output`
SummaryLine(r) ==
    <<BOLD>> \o PacmanName \o <<":", RESET, " ">>
        \o format_package_count(Len(r[1])) \o <<" ","|"," ">>
    \o <<BOLD>> \o AurName \o <<":", RESET, " ">>
        \o format_package_count(Len(r[2])) \o <<" ","|"," ">>
    \o <<BOLD>> \o FlatpakName \o <<":", RESET, " ">>
        \o format_package_count(Len(r[3])) \o <<NL, NL>>

\* "=".repeat(n)
repeat_eq(n) == [i \in 1..n |-> "="]

\* the body of the for loop of print_category_results
RECURSIVE push_records(_, _)
push_records(rs, color) ==
    IF rs = <<>> THEN <<>>
    ELSE <<BOLD, color>> \o Head(rs)[1] \o <<RESET, NL>>
         \o <<" ", " ">> \o Head(rs)[2] \o <<NL, NL>>
         \o push_records(Tail(rs), color)

\* a plausible slip: the section header is written for an empty list too
print_category_results_always(category_name, rs, color) ==
    <<BOLD>> \o category_name
        \o <<" ","R","e","s","u","l","t","s",":">> \o <<RESET, NL>>
    \o repeat_eq(Len(category_name) + 9) \o <<NL>>
    \o push_records(rs, color)

\* print_category_results: what it appends to `output`
print_category_results(category_name, rs, color) ==
    IF rs # <<>>
    THEN <<BOLD>> \o category_name
             \o <<" ","R","e","s","u","l","t","s",":">> \o <<RESET, NL>>
         \o repeat_eq(Len(category_name) + 9) \o <<NL>>
         \o push_records(rs, color)
    ELSE <<>>

\* `output` as built by print_results_with_pager before the replace
FormatOutput(r) ==
    SummaryLine(r)
    \o print_category_results(PacmanName, r[1], BLUE)
    \o print_category_results(AurName, r[2], RED)
    \o print_category_results(FlatpakName, r[3], GREEN)

\* a plausible slip: only the first '~' is replaced (str::replacen(.., 1))
replace_tilde_first(s) ==
    LET i == IndexOf(s, "~")
    IN  [k \in 1..Len(s) |-> IF k = i THEN " " ELSE s[k]]

\* output.replace('~', " ")
replace_tilde(s) == [k \in 1..Len(s) |-> IF s[k] = "~" THEN " " ELSE s[k]]

-----------------------------------------------------------------------------
(* The environment: command lines and what the external tools print.      *)

FOO == <<"f","o","o">>
BAR == <<"B","a","r">>

\* pacman -Ss: a package, and a package whose description is blank
PACMAN1 == <<"c","o","r","e","/","f","o","o"," ","1",".","0","-","1",NL," "," "," "," ","A"," ","f","o","o",".",NL>>
PACMAN2 ==
    <<"c","o","r","e","/","f","o","o"," ","1",".","0","-","1",NL," "," "," "," ","A"," ","f","o","o",".",NL,"e","x","t","r","a","/","f","o"," ","2",NL," "," "," ",NL>>
\* yay -Ss --aur: a name and a description with '~'
AUR1 == <<"a","u","r","/","b","~","r"," ","2",NL," "," "," "," ","a","~","b",NL>>
\* flatpak search: the header line and one application
FLATPAK1 ==
    <<"N","a","m","e",TAB,"B","r","a","n","c","h",TAB,"D","e","s","c",NL,"o","r","g",".","x",".","F","o","o",TAB,"s","t","a","b","l","e",TAB,"F","o","o"," ","a","p","p",NL>>

\* argument lists (without the program name) the program is started with
ArgvSamples == {<<>>, <<FOO>>, <<BAR, FOO>>}

\* the standard output an external tool may produce
ToolOutputs(a) ==
    IF a = "pacman" THEN {<<>>, PACMAN1, PACMAN2}
    ELSE IF a = "aur" THEN {<<>>, AUR1}
    ELSE {<<>>, FLATPAK1}

\* args[1..].join(" ")
RECURSIVE join(_)
join(v) ==
    IF v = <<>> THEN <<>>
    ELSE IF Len(v) = 1 THEN v[1]
    ELSE v[1] \o <<" ">> \o join(Tail(v))

\* most worker threads of the tokio runtime (Runtime::new() starts one per
\* core of the machine)
MaxWorkers == 3

Variants == {"seq", "async"}

NoResults == << <<>>, <<>>, <<>> >>

InitCommon ==
    /\ task = [a \in Adapters |-> "unspawned"]
    /\ taskResult = [a \in Adapters |-> <<"Pending">>]
    /\ finished = <<>>
    /\ output = <<>>
    /\ display_output = <<>>
    /\ pager = "none"
    /\ pagerStdin = "none"
    /\ pagerIn = <<>>
    /\ waitCalled = FALSE
    /\ stdinAtWait = "none"

Init ==
    /\ variant \in Variants
    /\ args \in ArgvSamples
    /\ term = <<>>
    /\ pc = "main"
    /\ workers \in (IF variant = "seq" THEN {0} ELSE 1..MaxWorkers)
    /\ stdout = [a \in Adapters |-> <<>>]
    /\ results = NoResults
    /\ InitCommon

-----------------------------------------------------------------------------
(* main                                                                    *)

\* main up to the call of search_packages: the usage check and the join of
\* the arguments
Main ==
    /\ pc = "main"
    /\ IF Len(args) < 1
       THEN /\ pc' = "usage"
            /\ term' = term
       ELSE /\ term' = join(args)
            /\ pc' = "search"
    /\ UNCHANGED <<variant, args, workers, task, stdout, taskResult, finished,
                   results, output, display_output, pager, pagerStdin,
                   pagerIn, waitCalled, stdinAtWait>>

\* the adapters named before a in the triple
Before(a) ==
    {AdapterOrder[j] : j \in {j \in 1..3 : \E i \in 1..3 :
                                   AdapterOrder[i] = a /\ j < i}}

Ended(a) == task[a] \in {"done", "failed"}

-----------------------------------------------------------------------------
(* src/src/main.rs: search_packages evaluates the tuple left to right.     *)

\* when the sequential search_packages reaches the call of search_<a>
CanSeqCall(a) ==
    /\ variant = "seq"
    /\ pc = "search"
    /\ task[a] = "unspawned"
    /\ \A b \in Before(a) : task[b] = "done"

\* Command::new(..).output() starts the tool, or fails and the
\* expect / unwrap_or_else panics
SeqCall(a) ==
    /\ CanSeqCall(a)
    /\ \/ /\ task' = [task EXCEPT ![a] = "running"]
          /\ pc' = pc
       \/ /\ task' = [task EXCEPT ![a] = "failed"]
          /\ pc' = "panic_search"
    /\ UNCHANGED <<variant, args, term, workers, stdout, taskResult, finished,
                   results, output, display_output, pager, pagerStdin,
                   pagerIn, waitCalled, stdinAtWait>>

\* the tool exits and its output is parsed, or reading it fails and the
\* expect / unwrap_or_else panics
SeqReturn(a) ==
    /\ variant = "seq"
    /\ pc = "search"
    /\ task[a] = "running"
    /\ \/ \E out \in ToolOutputs(a) :
             /\ stdout' = [stdout EXCEPT ![a] = out]
             /\ taskResult' = [taskResult EXCEPT
                                  ![a] = <<"Ok", ParseOf(a, out, term)>>]
             /\ task' = [task EXCEPT ![a] = "done"]
             /\ finished' = Append(finished, a)
             /\ pc' = pc
       \/ /\ task' = [task EXCEPT ![a] = "failed"]
          /\ pc' = "panic_search"
          /\ UNCHANGED <<stdout, taskResult, finished>>
    /\ UNCHANGED <<variant, args, term, workers, results, output,
                   display_output, pager, pagerStdin, pagerIn, waitCalled,
                   stdinAtWait>>

\* the tuple expression of search_packages
SeqTriple ==
    <<taskResult["pacman"][2], taskResult["aur"][2], taskResult["flatpak"][2]>>

\* search_packages returns to main
SeqAssemble ==
    /\ variant = "seq"
    /\ pc = "search"
    /\ \A a \in Adapters : task[a] = "done"
    /\ results' = SeqTriple
    /\ pc' = "render"
    /\ UNCHANGED <<variant, args, term, workers, task, stdout, taskResult,
                   finished, output, display_output, pager, pagerStdin,
                   pagerIn, waitCalled, stdinAtWait>>

-----------------------------------------------------------------------------
(* src/yay/src/main.rs: three tokio tasks and join_all.                    *)

\* tokio::spawn of the next task, in the order of the source
Spawn(a) ==
    /\ variant = "async"
    /\ pc = "search"
    /\ task[a] = "unspawned"
    /\ \A b \in Before(a) : task[b] # "unspawned"
    /\ task' = [task EXCEPT ![a] = "spawned"]
    /\ pc' = IF a = AdapterOrder[3] THEN "join" ELSE "search"
    /\ UNCHANGED <<variant, args, term, workers, stdout, taskResult, finished,
                   results, output, display_output, pager, pagerStdin,
                   pagerIn, waitCalled, stdinAtWait>>

\* a spawned task is picked up by a free worker thread: its body blocks the
\* worker in Command::output() until the tool has exited
CanTaskStart(a) ==
    /\ variant = "async"
    /\ task[a] = "spawned"
    /\ Cardinality({b \in Adapters : task[b] = "running"}) < workers

\* the task starts the tool, or output()? returns the launch error
TaskStart(a) ==
    /\ CanTaskStart(a)
    /\ \/ /\ task' = [task EXCEPT ![a] = "running"]
          /\ UNCHANGED <<taskResult, finished>>
       \/ /\ task' = [task EXCEPT ![a] = "failed"]
          /\ taskResult' = [taskResult EXCEPT ![a] = <<"Err">>]
          /\ finished' = Append(finished, a)
    /\ UNCHANGED <<variant, args, term, pc, workers, stdout, results, output,
                   display_output, pager, pagerStdin, pagerIn, waitCalled,
                   stdinAtWait>>

\* the tool exits and the task returns Ok(records), or reading the output
\* fails and the task returns the error
TaskEnd(a) ==
    /\ variant = "async"
    /\ task[a] = "running"
    /\ \/ \E out \in ToolOutputs(a) :
             /\ stdout' = [stdout EXCEPT ![a] = out]
             /\ taskResult' = [taskResult EXCEPT
                                  ![a] = <<"Ok", ParseOf(a, out, term)>>]
             /\ task' = [task EXCEPT ![a] = "done"]
       \/ /\ taskResult' = [taskResult EXCEPT ![a] = <<"Err">>]
          /\ task' = [task EXCEPT ![a] = "failed"]
          /\ stdout' = stdout
    /\ finished' = Append(finished, a)
    /\ UNCHANGED <<variant, args, term, pc, workers, results, output,
                   display_output, pager, pagerStdin, pagerIn, waitCalled,
                   stdinAtWait>>

\* `if let Ok(Ok(r)) = results[i].as_ref()`: the records, or the empty
\* vector final_results was initialised with
Unwrap(r) == IF r[1] = "Ok" THEN r[2] ELSE <<>>

\* a plausible slip: the results are taken in the order of completion
\* (FuturesUnordered instead of join_all)
CompletionOrderTriple ==
    [i \in 1..3 |-> Unwrap(taskResult[finished[i]])]

\* final_results as filled from results[0], results[1], results[2]
JoinedTriple ==
    <<Unwrap(taskResult["pacman"]), Unwrap(taskResult["aur"]),
      Unwrap(taskResult["flatpak"])>>

\* a plausible slip: the first finished task ends the wait (select)
AnyJoined == \E a \in Adapters : Ended(a)

\* join_all(..).await is ready: every task has ended
AllJoined == \A a \in Adapters : Ended(a)

\* search_packages after join_all: the triple is assembled and returned
JoinAll ==
    /\ variant = "async"
    /\ pc = "join"
    /\ AllJoined
    /\ results' = JoinedTriple
    /\ pc' = "render"
    /\ UNCHANGED <<variant, args, term, workers, task, stdout, taskResult,
                   finished, output, display_output, pager, pagerStdin,
                   pagerIn, waitCalled, stdinAtWait>>

-----------------------------------------------------------------------------
(* print_results_with_pager (the same in both variants).                   *)

\* the buffer is formatted and the '~' are replaced
Render ==
    /\ pc = "render"
    /\ output' = FormatOutput(results)
    /\ display_output' = replace_tilde(FormatOutput(results))
    /\ pc' = "spawn_pager"
    /\ UNCHANGED <<variant, args, term, workers, task, stdout, taskResult,
                   finished, results, pager, pagerStdin, pagerIn, waitCalled,
                   stdinAtWait>>

\* Command::new("less")..spawn().expect(..)
SpawnPager ==
    /\ pc = "spawn_pager"
    /\ \/ /\ pager' = "running"
          /\ pagerStdin' = "open"
          /\ pc' = "write"
       \/ /\ pc' = "panic_spawn"
          /\ UNCHANGED <<pager, pagerStdin>>
    /\ UNCHANGED <<variant, args, term, workers, task, stdout, taskResult,
                   finished, results, output, display_output, pagerIn,
                   waitCalled, stdinAtWait>>

\* pager_stdin.write_all(..).expect(..): on an error the panic unwinds, which
\* drops pager_stdin and then the Child, whose drop does not wait
WritePager ==
    /\ pc = "write"
    /\ \/ /\ pagerIn' = display_output
          /\ pc' = "drop_stdin"
          /\ pagerStdin' = pagerStdin
       \/ /\ pagerStdin' = "closed"
          /\ pc' = "panic_write"
          /\ pagerIn' = pagerIn
    /\ UNCHANGED <<variant, args, term, workers, task, stdout, taskResult,
                   finished, results, output, display_output, pager,
                   waitCalled, stdinAtWait>>

\* the end of the `if let` block drops pager_stdin
DropStdin ==
    /\ pc = "drop_stdin"
    /\ pagerStdin' = "closed"
    /\ pc' = "wait"
    /\ UNCHANGED <<variant, args, term, workers, task, stdout, taskResult,
                   finished, results, output, display_output, pager, pagerIn,
                   waitCalled, stdinAtWait>>

\* pager.wait().expect(..)
WaitPager ==
    /\ pc = "wait"
    /\ waitCalled' = TRUE
    /\ stdinAtWait' = pagerStdin
    /\ \/ pc' = "done"
       \/ pc' = "panic_wait"
    /\ UNCHANGED <<variant, args, term, workers, task, stdout, taskResult,
                   finished, results, output, display_output, pager,
                   pagerStdin, pagerIn>>

Next ==
    \/ Main
    \/ \E a \in Adapters : SeqCall(a)
    \/ \E a \in Adapters : SeqReturn(a)
    \/ SeqAssemble
    \/ \E a \in Adapters : Spawn(a)
    \/ \E a \in Adapters : TaskStart(a)
    \/ \E a \in Adapters : TaskEnd(a)
    \/ JoinAll
    \/ Render
    \/ SpawnPager
    \/ WritePager
    \/ DropStdin
    \/ WaitPager

Spec == Init /\ [][Next]_vars

-----------------------------------------------------------------------------
(* The parsers and the renderer on bounded inputs.                         *)

PacmanAlphabet == {"/", " ", "a", NL}
FlatpakAlphabet == {"a", "A", TAB, NL}
TermAlphabet == {"a", "A"}

\* execute_search_command applied to every output of at most MaxOut
\* characters
InitParse ==
    /\ variant = "seq"
    /\ args = <<>>
    /\ term = <<>>
    /\ pc = "exec"
    /\ workers = 0
    /\ \E o \in Strings(PacmanAlphabet, MaxOut) :
          stdout = [a \in Adapters |-> IF a = "pacman" THEN o ELSE <<>>]
    /\ results = NoResults
    /\ InitCommon

\* search_pacman: the output of pacman is parsed
ExecParse ==
    /\ pc = "exec"
    /\ taskResult' = [taskResult EXCEPT
                         !["pacman"] =
                             <<"Ok", execute_search_command(stdout["pacman"])>>]
    /\ pc' = "parsed"
    /\ UNCHANGED <<variant, args, term, workers, task, stdout, finished,
                   results, output, display_output, pager, pagerStdin,
                   pagerIn, waitCalled, stdinAtWait>>

SpecParse == InitParse /\ [][ExecParse]_vars

TermSamples ==
    Strings(TermAlphabet, MaxTermLen)
        \cup {FOO, <<"F","O","O">>, <<"b","a","r">>}

\* search_flatpak applied to every output of at most MaxFlatpakOut
\* characters and every term of at most MaxTermLen characters
InitFlatpak ==
    /\ variant = "seq"
    /\ args = <<>>
    /\ term \in TermSamples
    /\ pc = "exec_flatpak"
    /\ workers = 0
    /\ \E o \in Strings(FlatpakAlphabet, MaxFlatpakOut) \cup {FLATPAK1} :
          stdout = [a \in Adapters |-> IF a = "flatpak" THEN o ELSE <<>>]
    /\ results = NoResults
    /\ InitCommon

\* search_flatpak: the output of flatpak is parsed
ExecFlatpak ==
    /\ pc = "exec_flatpak"
    /\ taskResult' = [taskResult EXCEPT
                         !["flatpak"] =
                             <<"Ok", search_flatpak(stdout["flatpak"], term)>>]
    /\ pc' = "parsed_flatpak"
    /\ UNCHANGED <<variant, args, term, workers, task, stdout, finished,
                   results, output, display_output, pager, pagerStdin,
                   pagerIn, waitCalled, stdinAtWait>>

SpecFlatpak == InitFlatpak /\ [][ExecFlatpak]_vars

\* records the result lists of SpecRender are made of
RecordPool ==
    { << <<"a">>, <<"b">> >>,
      << <<"a","~">>, <<"a","~","b">> >> }

RecordLists == UNION {[1..k -> RecordPool] : k \in 0..MaxRecs}

\* print_results_with_pager applied to every triple of lists of at most
\* MaxRecs records
InitRender ==
    /\ variant = "async"
    /\ args = <<>>
    /\ term = <<>>
    /\ pc = "render"
    /\ workers = 1
    /\ stdout = [a \in Adapters |-> <<>>]
    /\ results \in RecordLists \X RecordLists \X RecordLists
    /\ InitCommon

NextRender ==
    \/ Render
    \/ SpawnPager
    \/ WritePager
    \/ DropStdin
    \/ WaitPager

SpecRender == InitRender /\ [][NextRender]_vars

-----------------------------------------------------------------------------
(* Properties of the aggregation (specification Spec).                     *)

\* search_packages has returned its triple
AfterJoin ==
    pc \in {"render", "spawn_pager", "write", "drop_stdin", "wait", "done",
            "panic_spawn", "panic_write", "panic_wait"}

\* what adapter a contributes: the records parsed from what its tool
\* printed, nothing when the tool could not be run or read
Produced(a) ==
    IF task[a] = "failed" THEN <<>> ELSE ParseOf(a, stdout[a], term)

\* C1: whatever subset of the adapters fails, aggregation never aborts, and
\* in the returned triple the slot of a failed adapter is empty while the
\* slot of every other adapter holds its parsed records.
C1_FailureIsolation ==
    /\ pc # "panic_search"
    /\ AfterJoin =>
          \A i \in 1..3 :
             /\ task[AdapterOrder[i]] = "failed" => results[i] = <<>>
             /\ task[AdapterOrder[i]] = "done" =>
                   results[i] = Produced(AdapterOrder[i])

\* C2: for every completion order, the returned triple holds the pacman
\* records in slot 1, the yay records in slot 2 and the flatpak records in
\* slot 3.
C2_SlotOrder ==
    AfterJoin =>
       /\ results[1] = Produced("pacman")
       /\ results[2] = Produced("aur")
       /\ results[3] = Produced("flatpak")

\* C2 witness: the tasks ended in the reverse of the slot order, each with
\* records of its own, and the triple has been returned
C2_Witness ==
    /\ AfterJoin
    /\ variant = "async"
    /\ finished = <<"flatpak", "aur", "pacman">>
    /\ \A i \in 1..3 : results[i] # <<>>
    /\ results[1] # results[2]
    /\ results[2] # results[3]
    /\ results[1] # results[3]

\* C3: once the pager has been spawned, on every path out of
\* print_results_with_pager the pipe to the pager was closed when the wait
\* began, and the wait was performed.
C3_PagerScoped ==
    (pager # "none" /\ pc \in {"done", "panic_write", "panic_wait"}) =>
       /\ waitCalled
       /\ stdinAtWait = "closed"

\* C4: during aggregation, while one adapter's search is running, an
\* adapter that has not been started yet can be started: no start waits
\* for another adapter to finish.
C4_ConcurrentDispatch ==
    \A a \in Adapters :
       (\E b \in Adapters \ {a} : task[b] = "running") =>
          /\ (variant = "seq" /\ pc = "search" /\ task[a] = "unspawned")
                => CanSeqCall(a)
          /\ (variant = "async" /\ task[a] = "spawned") => CanTaskStart(a)

\* C10: rendering starts and the pager is spawned only after all three
\* searches have ended and their results have been joined.
C10_PagerAfterJoin ==
    (pager # "none" \/ pc \in {"render", "spawn_pager", "write"}) =>
       /\ Len(args) >= 1
       /\ \A a \in Adapters :
             /\ task[a] \in {"done", "failed"}
             /\ taskResult[a] # <<"Pending">>

\* C10 witness: the pager runs after three concurrent tasks, one of which
\* failed
C10_Witness ==
    /\ pager = "running"
    /\ variant = "async"
    /\ workers = 3
    /\ \E a \in Adapters : task[a] = "failed"
    /\ \E a \in Adapters : task[a] = "done"

-----------------------------------------------------------------------------
(* Properties of execute_search_command (specification SpecParse).         *)

ParsedRecords == taskResult["pacman"][2]

\* C5: every record has a non-empty name and a non-empty description, the
\* description being "No description." unless it holds a character that is
\* not white space.
C5_RecordsNonEmpty ==
    pc = "parsed" =>
       \A i \in 1..Len(ParsedRecords) :
          /\ ParsedRecords[i][1] # <<>>
          /\ ParsedRecords[i][2] # <<>>
          /\ \/ ParsedRecords[i][2] = NoDescription
             \/ \E k \in 1..Len(ParsedRecords[i][2]) :
                   ~IsWhitespace(ParsedRecords[i][2][k])

\* a header yields a record: it holds a '/' followed later by a space
HasSlashThenSpace(h) ==
    \E i \in 1..Len(h) : \E j \in 1..Len(h) :
        i < j /\ h[i] = "/" /\ h[j] = " "

\* the text between the first '/' and the first space after it
NameOfHeader(h) ==
    LET i == CHOOSE i \in 1..Len(h) :
                 h[i] = "/" /\ \A k \in 1..Len(h) : h[k] = "/" => i <= k
        j == CHOOSE j \in 1..Len(h) :
                 /\ i < j /\ h[j] = " "
                 /\ \A k \in 1..Len(h) : (i < k /\ h[k] = " ") => j <= k
    IN  [k \in 1..(j - i - 1) |-> h[i + k]]

\* the description line without the white space around it, or the default
DescriptionOf(d) ==
    IF \A k \in 1..Len(d) : IsWhitespace(d[k])
    THEN NoDescription
    ELSE LET NonWs == {k \in 1..Len(d) : ~IsWhitespace(d[k])}
             lo == CHOOSE k \in NonWs : \A m \in NonWs : k <= m
             hi == CHOOSE k \in NonWs : \A m \in NonWs : m <= k
         IN  [k \in 1..(hi - lo + 1) |-> d[lo + k - 1]]

\* one record, in order, for each pair (ls[2k-1], ls[2k]) whose header
\* yields a record
PairedRecords(ls) ==
    LET n == Len(ls) \div 2
        ks == SelectSeq([k \in 1..n |-> k],
                        LAMBDA k : HasSlashThenSpace(ls[2*k - 1]))
    IN  [i \in 1..Len(ks) |->
            <<NameOfHeader(ls[2*ks[i] - 1]), DescriptionOf(ls[2*ks[i]])>>]

NonEmptyLines(out) == SelectSeq(lines(out), LAMBDA l : l # <<>>)

-----------------------------------------------------------------------------
(* Properties of search_flatpak (specification SpecFlatpak).               *)

FlatpakRecords == taskResult["flatpak"][2]

LowerChar(c) ==
    IF \E k \in 1..26 : Upper[k] = c
    THEN Lower[CHOOSE k \in 1..26 : Upper[k] = c]
    ELSE c

\* the first tab-separated field of a line that holds a tab
FirstField(l) ==
    LET i == CHOOSE i \in 1..Len(l) :
                 l[i] = TAB /\ \A k \in 1..Len(l) : l[k] = TAB => i <= k
    IN  [k \in 1..(i - 1) |-> l[k]]

\* name holds t somewhere, letter case apart
MatchesTerm(name, t) ==
    /\ Len(t) <= Len(name)
    /\ \E off \in 0..(Len(name) - Len(t)) :
          \A j \in 1..Len(t) : LowerChar(name[off + j]) = LowerChar(t[j])

\* a line that yields a record: not empty, at least two fields, and its
\* first field holds the term
Qualifies(l, t) ==
    /\ l # <<>>
    /\ \E k \in 1..Len(l) : l[k] = TAB
    /\ MatchesTerm(FirstField(l), t)

FlatpakLines == lines(stdout["flatpak"])

QualifyingLines ==
    SelectSeq(IF FlatpakLines = <<>> THEN <<>>
              ELSE SubSeq(FlatpakLines, 2, Len(FlatpakLines)),
              LAMBDA l : Qualifies(l, term))

\* C7: the first line is dropped, and the records are, in order, one for
\* each later non-empty line with at least two tab-separated fields whose
\* first field, lowercased, holds the lowercased term; the header plus
\* "org.x.Foo<TAB>stable<TAB>Foo app" gives ("org.x.Foo", "Foo app") for
\* the term "foo" and nothing for the term "bar".
C7_FlatpakRecords ==
    pc = "parsed_flatpak" =>
       /\ Len(FlatpakRecords) = Len(QualifyingLines)
       /\ \A i \in 1..Len(FlatpakRecords) :
             FlatpakRecords[i][1] = FirstField(QualifyingLines[i])
       /\ (stdout["flatpak"] = FLATPAK1 /\ term = FOO) =>
             FlatpakRecords =
                << << <<"o","r","g",".","x",".","F","o","o">>,
                      <<"F","o","o"," ","a","p","p">> >> >>
       /\ (stdout["flatpak"] = FLATPAK1 /\ term = <<"b","a","r">>) =>
             FlatpakRecords = <<>>

\* C7 witness: the header line would have matched and is dropped, the next
\* line matches an upper-case term by its lower-case name
C7_Witness ==
    /\ pc = "parsed_flatpak"
    /\ term = <<"A">>
    /\ Len(FlatpakLines) = 2
    /\ Qualifies(FlatpakLines[1], term)
    /\ Len(FlatpakRecords) = 1
    /\ FlatpakRecords[1][1] = <<"a">>

-----------------------------------------------------------------------------
(* Properties of print_results_with_pager (specification SpecRender).      *)

\* C8: what is written to the pager holds no '~': it is the formatted
\* document with every '~' replaced by one space and nothing else changed.
C8_NoTilde ==
    pagerIn # <<>> =>
       /\ \A k \in 1..Len(pagerIn) : pagerIn[k] # "~"
       /\ Len(pagerIn) = Len(output)
       /\ \A k \in 1..Len(output) :
             /\ output[k] = "~" => pagerIn[k] = " "
             /\ output[k] # "~" => pagerIn[k] = output[k]

\* C8 witness: a document with several '~' has been written to the pager
C8_Witness ==
    /\ pagerIn # <<>>
    /\ Cardinality({k \in 1..Len(output) : output[k] = "~"}) >= 2

Categories ==
    << <<PacmanName, BLUE>>, <<AurName, RED>>, <<FlatpakName, GREEN>> >>

HeaderLine(name) ==
    <<BOLD>> \o name \o <<" ","R","e","s","u","l","t","s",":">>
        \o <<RESET, NL>>

OccursAt(buf, pat, p) ==
    /\ p + Len(pat) - 1 <= Len(buf)
    /\ \A j \in 1..Len(pat) : buf[p + j - 1] = pat[j]

RECURSIVE Flatten(_)
Flatten(ss) == IF ss = <<>> THEN <<>> ELSE Head(ss) \o Flatten(Tail(ss))

\* the block of one record: the name in bold and colour, the description
\* behind two spaces, an empty line
Block(rec, color) ==
    <<BOLD, color>> \o rec[1] \o <<RESET, NL, " ", " ">> \o rec[2]
        \o <<NL, NL>>

\* the section of category k: header line, rule line, one block per record
Section(k) ==
    IF results[k] = <<>> THEN <<>>
    ELSE HeaderLine(Categories[k][1])
         \o [i \in 1..(Len(Categories[k][1]) + 9) |-> "="] \o <<NL>>
         \o Flatten([i \in 1..Len(results[k]) |->
                        Block(results[k][i], Categories[k][2])])

\* C9: the document holds the section of a category if and only if the
\* list of the category is not empty; a section is its header line, a rule
\* of len(category_name) + 9 '=' and one block per record in list order;
\* the sections follow the summary line in the order system, user,
\* sandboxed.
C9_Sections ==
    pc \in {"spawn_pager", "write", "drop_stdin", "wait", "done"} =>
       /\ \A k \in 1..3 :
             (\E p \in 1..Len(output) :
                 OccursAt(output, HeaderLine(Categories[k][1]), p))
             <=> results[k] # <<>>
       /\ output = SummaryLine(results) \o Section(1) \o Section(2)
                       \o Section(3)

\* C9 witness: a document with the first section left out and the two
\* others present, the last with two records
C9_Witness ==
    /\ pc = "write"
    /\ results[1] = <<>>
    /\ results[2] # <<>>
    /\ Len(results[3]) = 2

=============================================================================
